---- MODULE Spec2Model ----
(***************************************************************************)
(* vermeerkat/caltable_parser.py: the calibrator catalogue reader          *)
(* (read_caltable), its formatter (format_calibrator_db) and the model     *)
(* converter (convert_pb_to_casaspi).                                      *)
(*                                                                         *)
(* Text is modelled character by character: a line is a TLA+ string, a     *)
(* character is a string of length one, and the regular expressions of     *)
(* the source are matched by a backtracking matcher with Python's          *)
(* priorities (greedy quantifiers, first alternative first).               *)
(*                                                                         *)
(* Floats are fixed-point integers: the float x is the integer x * Scale.  *)
(* This is exact for the inputs enumerated here (at most FracDigits        *)
(* fractional digits); binary rounding of the source's doubles is not      *)
(* modelled.                                                               *)
(***************************************************************************)
EXTENDS Integers, Sequences, FiniteSets, TLC

VARIABLES
    file,           \* the catalogue file: its lines, without line terminators
    eofnl,          \* whether the last line of the file ends with "\n"
    pos,            \* read_caltable: number of lines f.readline() has returned
    line,           \* read_caltable: `line`, "" at end of file
    ln_no,          \* read_caltable: `ln_no`
    calibrator_db,  \* read_caltable: `calibrator_db`, a function name -> record
    pc,             \* read_caltable / format_calibrator_db: control position
    err,            \* the exception read_caltable raised, or NoError
    ret,            \* the value read_caltable returned, or None
    text,           \* the value format_calibrator_db returned, or None
    args,           \* convert_pb_to_casaspi: its arguments
    cpc,            \* convert_pb_to_casaspi: control position
    I,              \* convert_pb_to_casaspi: `I`
    v,              \* convert_pb_to_casaspi: `v`, the sampling
    popt,           \* convert_pb_to_casaspi: `popt`
    perr,           \* convert_pb_to_casaspi: `perr`
    cerr,           \* the exception convert_pb_to_casaspi raised, or NoError
    cret            \* the value convert_pb_to_casaspi returned, or None

rvars == <<file, eofnl, pos, line, ln_no, calibrator_db, pc, err, ret, text>>
cvars == <<args, cpc, I, v, popt, perr, cerr, cret>>
vars == <<rvars, cvars>>

\* A variable that may hold no value holds None or Some(x).
None == <<>>
Some(x) == <<x>>
Val(o) == o[1]
NoError == [type |-> "NoError"]

----------------------------------------------------------------------------
(* Bounds                                                                  *)

\* Longest file, in lines.
MaxLines == 3
\* Fractional digits the fixed-point floats keep.
FracDigits == 2

----------------------------------------------------------------------------
(* Characters and strings                                                  *)

Char(s, i) == SubSeq(s, i, i)

\* The element of a one-element set.  {F(x) : x \in {e}} evaluates e once and
\* hands F its value.
Only(S) == CHOOSE x \in S : TRUE

Digits == {"0", "1", "2", "3", "4", "5", "6", "7", "8", "9"}
Letters ==
    {"a", "b", "c", "d", "e", "f", "g", "h", "i", "j", "k", "l", "m",
     "n", "o", "p", "q", "r", "s", "t", "u", "v", "w", "x", "y", "z",
     "A", "B", "C", "D", "E", "F", "G", "H", "I", "J", "K", "L", "M",
     "N", "O", "P", "Q", "R", "S", "T", "U", "V", "W", "X", "Y", "Z"}
Signs == {"+", "-"}
\* [0-9A-Za-z\-+_ ]
NameChars == Digits \cup Letters \cup {"-", "+", "_", " "}
\* [ \t], a separator class that takes tabs too
SpaceChars_WithTab == {" ", "\t"}
\* [ ]
SpaceChars == {" "}
\* what str.strip() removes
Whitespace == {" ", "\t", "\n", "\r", "\f"}

RECURSIVE Pow10(_)
Pow10(n) == IF n = 0 THEN 1 ELSE 10 * Pow10(n - 1)

\* np.log10 on the powers of ten
RECURSIVE Log10(_)
Log10(n) == IF n = 1 THEN 0 ELSE 1 + Log10(n \div 10)

\* line.split("//")[0]: the text before the first "//"
RECURSIVE SplitComment(_, _)
SplitComment(s, i) ==
    IF i >= Len(s) THEN s
    ELSE IF SubSeq(s, i, i + 1) = "//" THEN SubSeq(s, 1, i - 1)
    ELSE SplitComment(s, i + 1)

\* str.strip()
RECURSIVE LStrip(_)
LStrip(s) ==
    IF Len(s) > 0 /\ Char(s, 1) \in Whitespace
    THEN LStrip(SubSeq(s, 2, Len(s))) ELSE s
RECURSIVE RStrip(_)
RStrip(s) ==
    IF Len(s) > 0 /\ Char(s, Len(s)) \in Whitespace
    THEN RStrip(SubSeq(s, 1, Len(s) - 1)) ELSE s
Strip(s) == LStrip(RStrip(s))

----------------------------------------------------------------------------
(* re.match                                                                *)

Groups ==
    {"name", "epoch", "ra", "decl", "a", "b", "c", "d", "h", "m", "s",
     "int", "frac", "esign", "exp", "sign"}

Lit(s)      == [t |-> "lit", s |-> s]
Plus(cls)   == [t |-> "plus", cls |-> cls]
Opt(cls)    == [t |-> "opt", cls |-> cls]
One(cls)    == [t |-> "one", cls |-> cls]
Dot         == [t |-> "dot"]
OptGrp(b)   == [t |-> "optgrp", body |-> b]
Grp(g, b)   == [t |-> "grp", g |-> g, body |-> b]
Eol         == [t |-> "eol"]
End         == [t |-> "end"]

NoMatch == [ok |-> FALSE]
NoCaps == [g \in Groups |-> ""]

\* Length of the longest run of characters of cls in s from position i.
RECURSIVE Run(_, _, _)
Run(s, i, cls) ==
    IF i <= Len(s) /\ Char(s, i) \in cls THEN 1 + Run(s, i + 1, cls) ELSE 0

\* A matcher state: the position i in s, the value val of each group, and the
\* choices made so far (0 is what a backtracking matcher tries first: the
\* longest repetition, the optional part present).
State0 == [i |-> 1, val |-> NoCaps, path |-> <<>>]

\* The states in which the nodes re[k..] can end from the state st.
RECURSIVE Follow(_, _, _, _)

\* The states one node n leads to from the state st.
Advance(n, s, st) ==
    LET i == st.i
        at(j, choice) == [st EXCEPT !.i = j, !.path = Append(@, choice)]
    IN  CASE n.t = "lit" ->
              IF i + Len(n.s) - 1 <= Len(s) /\ SubSeq(s, i, i + Len(n.s) - 1) = n.s
              THEN {[st EXCEPT !.i = i + Len(n.s)]} ELSE {}
          [] n.t = "plus" ->
              {at(i + j, Run(s, i, n.cls) - j) : j \in 1..Run(s, i, n.cls)}
          [] n.t = "opt" ->
              IF i <= Len(s) /\ Char(s, i) \in n.cls
              THEN {at(i + 1, 0), at(i, 1)} ELSE {at(i, 1)}
          [] n.t = "one" ->
              IF i <= Len(s) /\ Char(s, i) \in n.cls
              THEN {[st EXCEPT !.i = i + 1]} ELSE {}
          [] n.t = "dot" ->
              IF i <= Len(s) /\ Char(s, i) # "\n"
              THEN {[st EXCEPT !.i = i + 1]} ELSE {}
          [] n.t = "optgrp" ->
              Follow(n.body, 1, s, at(i, 0)) \cup {at(i, 1)}
          [] n.t = "grp" ->
              {[e EXCEPT !.val[n.g] = SubSeq(s, i, e.i - 1)] :
                  e \in Follow(n.body, 1, s, st)}
          [] n.t = "eol" ->
              IF i = Len(s) + 1 \/ (i = Len(s) /\ Char(s, i) = "\n")
              THEN {st} ELSE {}
          [] n.t = "end" ->
              IF i = Len(s) + 1 THEN {st} ELSE {}

Follow(re, k, s, st) ==
    IF k > Len(re) THEN {st}
    ELSE UNION {Follow(re, k + 1, s, nx) : nx \in Advance(re[k], s, st)}

\* p is tried before q: at the first choice where they differ, p's is smaller
RECURSIVE Before(_, _, _)
Before(p, q, j) ==
    IF j > Len(p) \/ j > Len(q) THEN FALSE
    ELSE IF p[j] # q[j] THEN p[j] < q[j]
    ELSE Before(p, q, j + 1)

\* re.match(re, s): the groups of the match tried first, or NoMatch
ReMatch(re, s) ==
    LET ends == Follow(re, 1, s, State0)
    IN  IF ends = {} THEN NoMatch
        ELSE [ok |-> TRUE,
              caps |-> (CHOOSE e \in ends :
                           \A f \in ends : ~Before(f.path, e.path, 1)).val]

\* [+\-]?[0-9]+(?:.[0-9]+)?  -- the dot is unescaped in the source
NumberRe == <<Opt(Signs), Plus(Digits), OptGrp(<<Dot, Plus(Digits)>>)>>
\* [+\-]?[0-9]+<u>[0-9]+m[0-9]+(?:.[0-9]+)?s
SexaRe(u) ==
    <<Opt(Signs), Plus(Digits), Lit(u), Plus(Digits), Lit("m"),
      Plus(Digits), OptGrp(<<Dot, Plus(Digits)>>), Lit("s")>>

\* the record grammar, lines 30-37
LineRe ==
    <<Lit("name="), Grp("name", <<Plus(NameChars)>>), Plus(SpaceChars),
      Lit("epoch="), Grp("epoch", <<Plus(Digits)>>), Plus(SpaceChars),
      Lit("ra="), Grp("ra", SexaRe("h")), Plus(SpaceChars),
      Lit("dec="), Grp("decl", SexaRe("d")), Plus(SpaceChars),
      Lit("a="), Grp("a", NumberRe), Plus(SpaceChars),
      Lit("b="), Grp("b", NumberRe), Plus(SpaceChars),
      Lit("c="), Grp("c", NumberRe), Plus(SpaceChars),
      Lit("d="), Grp("d", NumberRe), Eol>>

\* ^(?P<g>[+\-]?[0-9]+)<u>(?P<m>[0-9]+)m(?P<s>[0-9]+(?:.[0-9]+)?)s$
CoordRe(g, u) ==
    <<Grp(g, <<Opt(Signs), Plus(Digits)>>), Lit(u),
      Grp("m", <<Plus(Digits)>>), Lit("m"),
      Grp("s", <<Plus(Digits), OptGrp(<<Dot, Plus(Digits)>>)>>), Lit("s"), Eol>>

----------------------------------------------------------------------------
(* int() and float()                                                       *)

DigitVal(c) ==
    CASE c = "0" -> 0 [] c = "1" -> 1 [] c = "2" -> 2 [] c = "3" -> 3
      [] c = "4" -> 4 [] c = "5" -> 5 [] c = "6" -> 6 [] c = "7" -> 7
      [] c = "8" -> 8 [] c = "9" -> 9

\* int() of a string of digits
RECURSIVE StrToNat(_)
StrToNat(s) ==
    IF Len(s) = 0 THEN 0
    ELSE 10 * StrToNat(SubSeq(s, 1, Len(s) - 1)) + DigitVal(Char(s, Len(s)))

Scale == Pow10(FracDigits)
ValueError == [ok |-> FALSE]

\* The decimal strings float() accepts among those the callers can pass (every
\* one starts with an optional sign and a digit):
\* [+-]?[0-9]+(\.[0-9]*)?([eE][+-]?[0-9]+)?
FloatRe ==
    <<Grp("sign", <<Opt(Signs)>>), Grp("int", <<Plus(Digits)>>),
      OptGrp(<<Lit("."), Grp("frac", <<OptGrp(<<Plus(Digits)>>)>>)>>),
      OptGrp(<<One({"e", "E"}), Grp("esign", <<Opt(Signs)>>),
               Grp("exp", <<Plus(Digits)>>)>>),
      End>>

\* the value, times Scale, of a float() match with groups g
FloatValue(g) ==
    LET num == StrToNat(g["int"]) * Pow10(Len(g["frac"])) + StrToNat(g["frac"])
        e == (IF g["esign"] = "-" THEN -1 ELSE 1) * StrToNat(g["exp"])
        shift == FracDigits + e - Len(g["frac"])
        mag == IF shift >= 0 THEN num * Pow10(shift) ELSE num \div Pow10(-shift)
    IN  IF g["sign"] = "-" THEN -mag ELSE mag

\* float(s): the value times Scale, or ValueError
Float(s) ==
    Only({IF m.ok THEN [ok |-> TRUE, val |-> FloatValue(m.caps)] ELSE ValueError :
            m \in {ReMatch(FloatRe, Strip(s))}})

----------------------------------------------------------------------------
(* read_caltable: one line                                                 *)

\* np.log10(1000)
K == Log10(1000)

\* float(h) + float(m) / 60.0 + float(s) / 3600, then / 24.0 * 360 and
\* np.deg2rad.  The stored integer is the angle in units of
\* pi / (180 * 240 * Scale) radians: 240 * degrees = 3600 h + 60 m + s.
RaOf(h, m, s) == 3600 * h + 60 * m + s
\* float(d) + float(m) + float(s), a flat sum, then np.deg2rad.  The stored
\* integer is the angle in units of pi / (180 * Scale) radians.
DeclOf(d, m, s) == d + m + s

\* the Perley Butler GHz coefficients of MHz coefficients a, b, c, d (times
\* Scale), for the shift k
GhzA(a, b, c, d, k) == a + (b * k) + (c * k * k) + (d * k * k * k)
\* the b coefficient with the derivative of the cubic term off by a factor
GhzB_Wrong(a, b, c, d, k) == b + (2 * c * k) + (2 * d * k * k)
GhzB(a, b, c, d, k) == b + (2 * c * k) + (3 * d * k * k)
GhzC(a, b, c, d, k) == c + (3 * d * k)
GhzD(a, b, c, d, k) == d

\* lines 70-87: the entry of a source
Record(epoch, ra, decl, a, b, c, d) ==
    [epoch |-> epoch,
     ra |-> ra,
     decl |-> decl,
     a_ghz |-> GhzA(a, b, c, d, K),
     b_ghz |-> GhzB(a, b, c, d, K),
     c_ghz |-> GhzC(a, b, c, d, K),
     d_ghz |-> GhzD(a, b, c, d, K),
     a_mhz |-> a,
     b_mhz |-> b,
     c_mhz |-> c,
     d_mhz |-> d]

\* lines 53-87: the floats of the groups g, vra, vde of a matched line, and the
\* entry made of them
ConvertFloats(g, vra, vde) ==
    Only({IF \E x \in {rh, rm, rs, dd, dm, ds, a, b, c, d} : ~x.ok
          THEN [kind |-> "valueerror"]
          ELSE [kind |-> "record",
                name |-> g["name"],
                rec |-> Record(StrToNat(g["epoch"]),
                               RaOf(rh.val, rm.val, rs.val),
                               DeclOf(dd.val, dm.val, ds.val),
                               a.val, b.val, c.val, d.val)] :
            rh \in {Float(vra["h"])}, rm \in {Float(vra["m"])},
            rs \in {Float(vra["s"])},
            dd \in {Float(vde["d"])}, dm \in {Float(vde["m"])},
            ds \in {Float(vde["s"])},
            a \in {Float(g["a"])}, b \in {Float(g["b"])},
            c \in {Float(g["c"])}, d \in {Float(g["d"])}})

\* lines 45-87: the groups g of a matched line, converted
Convert(g) ==
    Only({ConvertFloats(g, vra, vde) :
            vra \in {ReMatch(CoordRe("h", "h"), g["ra"]).caps},
            vde \in {ReMatch(CoordRe("d", "d"), g["decl"]).caps}})

\* lines 23-43: the text before the comment, classified
ParseCommand(command) ==
    IF Strip(command) = "" THEN [kind |-> "skip"]
    ELSE Only({IF valset.ok THEN Convert(valset.caps) ELSE [kind |-> "illegal"] :
                 valset \in {ReMatch(LineRe, command)}})

\* a pass that matches the whole line, its comment included
LineOutcome_NoSplit(ln) == ParseCommand(ln)

\* What one pass of the loop body does with the line ln:
\*   skip       the text before "//" is blank,
\*   illegal    it does not match the record grammar (RuntimeError),
\*   valueerror a float() of a matched group raises ValueError,
\*   record     the entry calibrator_db[name] = rec.
LineOutcome(ln) ==
    Only({ParseCommand(command) : command \in {SplitComment(ln, 1)}})

----------------------------------------------------------------------------
(* The files read                                                          *)

\* the fields of a record line
CanonFields ==
    <<"name=A", "epoch=2000", "ra=1h2m3s", "dec=+1d2m3s", "a=1", "b=0", "c=0", "d=0">>
\* the same fields, epoch before name
SwappedFields ==
    <<"epoch=2000", "name=A", "ra=1h2m3s", "dec=+1d2m3s", "a=1", "b=0", "c=0", "d=0">>

RECURSIVE JoinFields(_, _)
JoinFields(fs, sep) ==
    IF Len(fs) = 1 THEN fs[1] ELSE fs[1] \o sep \o JoinFields(Tail(fs), sep)

\* a line made of fields in an order, one separator between them and a tail
Render(c) == JoinFields(c.fields, c.sep) \o c.tail

FieldCases ==
    {[fields |-> CanonFields, sep |-> " ", tail |-> ""],
     [fields |-> CanonFields, sep |-> "  ", tail |-> ""],
     [fields |-> CanonFields, sep |-> "\t", tail |-> ""],
     [fields |-> SwappedFields, sep |-> " ", tail |-> ""],
     [fields |-> CanonFields, sep |-> " ", tail |-> " x"]}

\* The lines the files are made of, without their line terminators.
LineSet ==
    {Render(c) : c \in FieldCases} \cup
    {"",
     " \t// c",
     JoinFields(CanonFields, " ") \o "//c",
     JoinFields(CanonFields, " ") \o " // c",
     "name=A epoch=1950 ra=-1h30m0.5s dec=-1d2m3.25s a=-1.5 b=2 c=1 d=-1",
     "name=B-1 epoch=2000 ra=1h2m3s dec=+1d2m3s a=+2 b=1 c=1 d=1",
     "name=A epoch=2000 ra=1h2m3s dec=+1d2m3s a=1x5 b=0 c=0 d=0",
     "name=C epoch=2000 ra=1h2m3s dec=+1d2m3s a=1e1 b=0 c=0 d=0"}

Files == UNION {[1..n -> LineSet] : n \in 0..MaxLines}

\* The k-th f.readline() of the file: the line with its terminator, "" at end
\* of file.
ReadLine(f, nl, k) ==
    IF k > Len(f) THEN ""
    ELSE IF k < Len(f) \/ nl THEN f[k] \o "\n"
    ELSE f[k]

\* every value f.readline() can return before the end of a file
ReadLines == LineSet \cup {ln \o "\n" : ln \in LineSet}

\* LineOutcome, tabulated once over the lines that can be read
Outcomes == [ln \in ReadLines |-> LineOutcome(ln)]
ParseLine(ln) == Outcomes[ln]

----------------------------------------------------------------------------
(* read_caltable                                                           *)

EmptyDb == [n \in {} |-> None]

\* an entry that an earlier line of the same name keeps
Put_KeepFirst(db, name, rec) ==
    [n \in DOMAIN db \cup {name} |-> IF n \in DOMAIN db THEN db[n] ELSE rec]

\* calibrator_db[name] = rec
Put(db, name, rec) ==
    [n \in DOMAIN db \cup {name} |-> IF n = name THEN rec ELSE db[n]]

RuntimeError(n, ln) == [type |-> "RuntimeError", ln_no |-> n, line |-> ln]
FloatValueError == [type |-> "ValueError"]

ConvIdle ==
    /\ args = None /\ cpc = "idle" /\ I = None /\ v = None
    /\ popt = None /\ perr = None /\ cerr = NoError /\ cret = None

Init ==
    /\ file \in Files
    /\ eofnl \in BOOLEAN
    \* a file that does not end with "\n" ends with a non-empty line
    /\ ~eofnl => (file # <<>> /\ file[Len(file)] # "")
    /\ pos = 0
    /\ line = ""
    /\ ln_no = 0
    /\ calibrator_db = EmptyDb
    /\ pc = "open"
    /\ err = NoError
    /\ ret = None
    /\ text = None
    /\ ConvIdle

\* lines 15-18
OpenFile ==
    /\ pc = "open"
    /\ line' = ReadLine(file, eofnl, 1)
    /\ pos' = 1
    /\ ln_no' = 1
    /\ pc' = "loop"
    /\ UNCHANGED <<file, eofnl, calibrator_db, err, ret, text, cvars>>

\* a blank or comment line, with `continue` and no f.readline() before it
LoopSkip_NoRead ==
    /\ pc = "loop"
    /\ line # ""
    /\ ParseLine(line).kind = "skip"
    /\ ln_no' = ln_no + 1
    /\ UNCHANGED <<file, eofnl, pos, line, calibrator_db, pc, err, ret, text, cvars>>

\* lines 19-27: a blank or comment line
LoopSkip ==
    /\ pc = "loop"
    /\ line # ""
    /\ ParseLine(line).kind = "skip"
    /\ line' = ReadLine(file, eofnl, pos + 1)
    /\ pos' = pos + 1
    /\ ln_no' = ln_no + 1
    /\ UNCHANGED <<file, eofnl, calibrator_db, pc, err, ret, text, cvars>>

\* lines 19-43: a line the record grammar does not match
LoopIllegal ==
    /\ pc = "loop"
    /\ line # ""
    /\ ParseLine(line).kind = "illegal"
    /\ err' = RuntimeError(ln_no, line)
    /\ pc' = "raised"
    /\ UNCHANGED <<file, eofnl, pos, line, ln_no, calibrator_db, ret, text, cvars>>

\* lines 19-68: a line the grammar matches and float() rejects
LoopValueError ==
    /\ pc = "loop"
    /\ line # ""
    /\ ParseLine(line).kind = "valueerror"
    /\ err' = FloatValueError
    /\ pc' = "raised"
    /\ UNCHANGED <<file, eofnl, pos, line, ln_no, calibrator_db, ret, text, cvars>>

\* lines 19-90: a record line
LoopStore ==
    /\ pc = "loop"
    /\ line # ""
    /\ LET p == ParseLine(line)
       IN  /\ p.kind = "record"
           /\ calibrator_db' = Put(calibrator_db, p.name, p.rec)
    /\ line' = ReadLine(file, eofnl, pos + 1)
    /\ pos' = pos + 1
    /\ ln_no' = ln_no + 1
    /\ UNCHANGED <<file, eofnl, pc, err, ret, text, cvars>>

\* lines 19, 92: end of file
LoopExit ==
    /\ pc = "loop"
    /\ line = ""
    /\ ret' = Some(calibrator_db)
    /\ pc' = "returned"
    /\ UNCHANGED <<file, eofnl, pos, line, ln_no, calibrator_db, err, text, cvars>>

----------------------------------------------------------------------------
(* format_calibrator_db                                                    *)

\* A text is a sequence of tokens: a literal string, or a number under a
\* conversion of the format string.
Str(s) == [s |-> s]
Fmt(f, x) == [fmt |-> f, val |-> x]
NL == Str("\n")

\* "\t%s\tEpoch:%d\tRA:%3.2f\tDEC:%3.2f\ta:%.4f\tb:%.4f\tc:%.4f\td:%.4f" % (...)
Entry(name, db) ==
    <<Str("\t"), Str(name),
      Str("\tEpoch:"), Fmt("%d", db.epoch),
      Str("\tRA:"), Fmt("%3.2f", db.ra),
      Str("\tDEC:"), Fmt("%3.2f", db.decl),
      Str("\ta:"), Fmt("%.4f", db.a_ghz),
      Str("\tb:"), Fmt("%.4f", db.b_ghz),
      Str("\tc:"), Fmt("%.4f", db.c_ghz),
      Str("\td:"), Fmt("%.4f", db.d_ghz)>>

\* '\n'.join(lines)
RECURSIVE JoinLines(_)
JoinLines(lines) ==
    IF lines = <<>> THEN <<>>
    ELSE IF Len(lines) = 1 THEN lines[1]
    ELSE lines[1] \o <<NL>> \o JoinLines(Tail(lines))

\* the orders in which a mapping with keys S may be iterated
IterOrders(S) ==
    {o \in [1..Cardinality(S) -> S] : \A i, j \in DOMAIN o : o[i] = o[j] => i = j}

\* the entries alone, without the leading ""
FormatLines_NoLead(db, order) ==
    [i \in DOMAIN order |-> Entry(order[i], db[order[i]])]

\* lines = [""] then one entry per item of the mapping
FormatLines(db, order) ==
    <<<<>>>> \o [i \in DOMAIN order |-> Entry(order[i], db[order[i]])]

\* lines 94-103, called on the catalogue read_caltable returned
FormatCalibratorDb ==
    /\ pc = "returned"
    /\ \E order \in IterOrders(DOMAIN Val(ret)) :
           text' = Some(JoinLines(FormatLines(Val(ret), order)))
    /\ pc' = "formatted"
    /\ UNCHANGED <<file, eofnl, pos, line, ln_no, calibrator_db, err, ret, cvars>>

----------------------------------------------------------------------------
(* convert_pb_to_casaspi                                                   *)

\* 1.0e-6, in the unit of the standard errors (1.0e-7)
PerrTol == 10
\* the number of samples of np.linspace
NumSamples == 10000

NaN == [nan |-> TRUE]
Num(x) == [nan |-> FALSE, val |-> x]
\* x < y for a float x that may be NaN: every comparison with NaN is false
FloatLess(x, y) == ~x.nan /\ x.val < y

\* The frequencies are powers of ten, where np.log10 is an integer.
Frequencies == {1, 10, 100}
RefFrequencies == {1, 10}
Coefficients == {<<1, 0, 0, 0>>, <<0, 1, 0, 0>>, <<1, 1, 1, 1>>}
\* what curve_fit may return for the fitted parameters ...
PoptSet == {<<0, 0, 0, 0>>, <<1, 0, 0, 0>>}
\* ... and for the standard error of each
PerrValues == {Num(PerrTol - 1), Num(PerrTol), Num(PerrTol + 1), NaN}

ArgSet ==
    {[vlower |-> lo, vupper |-> hi, v0 |-> v0, a |-> co[1], b |-> co[2],
      c |-> co[3], d |-> co[4]] :
        lo \in Frequencies, hi \in Frequencies, v0 \in RefFrequencies,
        co \in Coefficients}

\* lines 119-120
pbspi(f, a, b, c, d) ==
    Pow10(a + b * Log10(f) + c * Log10(f) * Log10(f)
            + d * Log10(f) * Log10(f) * Log10(f))

\* np.linspace(start, stop, num), by its end points and length
linspace(start, stop, num) == [start |-> start, stop |-> stop, num |-> num]

\* line 116: the range check passes
RangeOk(vlower, vupper) == ~(vlower > vupper)

\* np.any in place of np.all
FitOk_Any(pe) == \E i \in DOMAIN pe : FloatLess(pe[i], PerrTol)

\* line 129: np.all(perr < 1.0e-6)
FitOk(pe) == \A i \in DOMAIN pe : FloatLess(pe[i], PerrTol)

RangeError == [type |-> "ValueError", msg |-> "vlower must be lower than vupper"]
FitError == [type |-> "RuntimeError", msg |-> "Optimal parameters not found"]
AssertionError == [type |-> "AssertionError"]

ReaderIdle ==
    /\ file = <<>> /\ eofnl = TRUE /\ pos = 0 /\ line = "" /\ ln_no = 0
    /\ calibrator_db = EmptyDb /\ pc = "idle" /\ err = NoError
    /\ ret = None /\ text = None

ConvInit ==
    /\ ReaderIdle
    /\ args \in ArgSet
    /\ cpc = "start"
    /\ I = None
    /\ v = None
    /\ popt = None
    /\ perr = None
    /\ cerr = NoError
    /\ cret = None

\* lines 116-117
CheckRange ==
    /\ cpc = "start"
    /\ IF RangeOk(args.vlower, args.vupper)
       THEN cpc' = "ref" /\ cerr' = cerr
       ELSE cpc' = "raised" /\ cerr' = RangeError
    /\ UNCHANGED <<rvars, args, I, v, popt, perr, cret>>

\* line 124
ComputeI ==
    /\ cpc = "ref"
    /\ I' = Some(pbspi(args.v0, args.a, args.b, args.c, args.d))
    /\ cpc' = "sample"
    /\ UNCHANGED <<rvars, args, v, popt, perr, cerr, cret>>

\* line 126
Sample ==
    /\ cpc = "sample"
    /\ v' = Some(linspace(args.vlower, args.vupper, NumSamples))
    /\ cpc' = "fit"
    /\ UNCHANGED <<rvars, args, I, popt, perr, cerr, cret>>

\* lines 127-128: the least-squares solver returns parameters and a covariance
CurveFit ==
    /\ cpc = "fit"
    /\ \E p \in PoptSet, e \in [1..4 -> PerrValues] :
           popt' = Some(p) /\ perr' = Some(e)
    /\ cpc' = "assert"
    /\ UNCHANGED <<rvars, args, I, v, cerr, cret>>

\* line 127: the least-squares solver gives up
CurveFitRaises ==
    /\ cpc = "fit"
    /\ cerr' = FitError
    /\ cpc' = "raised"
    /\ UNCHANGED <<rvars, args, I, v, popt, perr, cret>>

\* line 129
AssertPerr ==
    /\ cpc = "assert"
    /\ IF FitOk(Val(perr))
       THEN cpc' = "return" /\ cerr' = cerr
       ELSE cpc' = "raised" /\ cerr' = AssertionError
    /\ UNCHANGED <<rvars, args, I, v, popt, perr, cret>>

\* line 132
Return ==
    /\ cpc = "return"
    /\ cret' = Some(<<Val(I), Val(popt)[1], Val(popt)[2], Val(popt)[3], Val(popt)[4]>>)
    /\ cpc' = "returned"
    /\ UNCHANGED <<rvars, args, I, v, popt, perr, cerr>>

ConvNext ==
    \/ CheckRange
    \/ ComputeI
    \/ Sample
    \/ CurveFit
    \/ CurveFitRaises
    \/ AssertPerr
    \/ Return

ConvSpec == ConvInit /\ [][ConvNext]_vars

----------------------------------------------------------------------------
(* The specifications of read_caltable and format_calibrator_db            *)

Next ==
    \/ OpenFile
    \/ LoopSkip
    \/ LoopIllegal
    \/ LoopValueError
    \/ LoopStore
    \/ LoopExit
    \/ FormatCalibratorDb

Spec == Init /\ [][Next]_vars

\* The interpreter runs the call to its end: a step that can be taken is taken.
FairSpec == Spec /\ WF_vars(Next)
----------------------------------------------------------------------------
(* Properties                                                              *)

\* the i-th line of the file as f.readline() returns it, written out
FileLine(i) ==
    IF i > Len(file) THEN ""
    ELSE file[i] \o (IF i < Len(file) \/ eofnl THEN "\n" ELSE "")
\* what the loop body does with the i-th line of the file
Kind(i) == ParseLine(FileLine(i)).kind
\* the text of a line before its first "//" is blank
Blank(ln) == Strip(SplitComment(ln, 1)) = ""
\* the call of read_caltable is over
ReadDone == pc \in {"returned", "raised", "formatted"}
InLoop == pc = "loop" /\ line # ""

\* C1: read_caltable fails at the first line that is neither blank nor comment
\* and does not match the record grammar, with the format error that carries
\* that line's 1-based number; no later line is examined and no catalogue is
\* returned; a file without such a line is read to its end.
C1_FailsAtFirstBadLine ==
    /\ pc = "raised" =>
          /\ err.type = "RuntimeError"
          /\ err.ln_no = pos
          /\ err.line = FileLine(pos)
          /\ Kind(pos) = "illegal"
          /\ \A i \in 1..(pos - 1) : Kind(i) # "illegal"
          /\ ret = None
    /\ pc \in {"returned", "formatted"} =>
          \A i \in 1..Len(file) : Kind(i) # "illegal"

\* the records of the file, by line
RecordLines == {i \in 1..Len(file) : Kind(i) = "record"}
NameAt(i) == ParseLine(FileLine(i)).name
RecAt(i) == ParseLine(FileLine(i)).rec
LastLineOf(name) ==
    CHOOSE i \in RecordLines :
        /\ NameAt(i) = name
        /\ \A j \in RecordLines : NameAt(j) = name => j <= i

\* C2: after read_caltable succeeds, the catalogue holds exactly the names of
\* the record lines, each with the record of the last line carrying it.
C2_LastLineWins ==
    pc = "returned" =>
        /\ DOMAIN Val(ret) = {NameAt(i) : i \in RecordLines}
        /\ \A name \in DOMAIN Val(ret) : Val(ret)[name] = RecAt(LastLineOf(name))

C2_Witness ==
    /\ pc = "returned"
    /\ \E i, j \in RecordLines :
          /\ i < j
          /\ NameAt(i) = NameAt(j)
          /\ RecAt(i) # RecAt(j)
          /\ \E k \in RecordLines : NameAt(k) # NameAt(i)

\* the lines that have the text before the first "//" of ln
SameCommand ==
    [ln \in ReadLines |->
        {other \in ReadLines : SplitComment(other, 1) = SplitComment(ln, 1)}]

\* C3: a line whose text before the first "//" is blank is skipped and leaves
\* the catalogue unchanged; what a pass of the loop does depends only on the
\* text before the first "//"; a file of blank and comment lines only gives
\* the empty catalogue.
C3_SkipAndCommentStrip ==
    [][/\ (InLoop /\ Blank(line)) =>
              /\ calibrator_db' = calibrator_db
              /\ pc' = "loop"
              /\ err' = NoError
       /\ InLoop =>
              \A other \in SameCommand[line] :
                      /\ ParseLine(other) = ParseLine(line)
                      /\ (pc' = "raised") = (ParseLine(other).kind \in {"illegal", "valueerror"})
                      /\ (calibrator_db' # calibrator_db) => ParseLine(other).kind = "record"
       /\ (pc' = "returned" /\ \A i \in 1..Len(file) : Blank(FileLine(i))) =>
              ret' = Some(EmptyDb)
      ]_vars

C3_Witness ==
    /\ pc = "returned"
    /\ Len(file) >= 3
    /\ Kind(1) = "record"
    /\ Kind(2) = "skip"
    /\ FileLine(2) # "\n"
    /\ Kind(3) = "record"
    /\ SplitComment(FileLine(3), 1) # FileLine(3)
    /\ Cardinality(DOMAIN Val(ret)) = 1

\* C4: convert_pb_to_casaspi fails with the range error whenever
\* freq_low >= freq_high, before the reference flux, the sampling or the fit
\* is computed, and only then.
C4_RangeRejected ==
    /\ (args.vlower >= args.vupper /\ cpc # "start") =>
          /\ cpc = "raised"
          /\ cerr = RangeError
          /\ I = None /\ v = None /\ popt = None /\ perr = None
    /\ args.vlower < args.vupper => cerr # RangeError

\* the separators of the claim: non-empty runs of spaces and tabs
RECURSIVE AllIn(_, _)
AllIn(str, cls) ==
    Len(str) = 0 \/ (Char(str, 1) \in cls /\ AllIn(SubSeq(str, 2, Len(str)), cls))
\* the line is the record line of the case c
IsCase(ln, c) == ln = Render(c) \/ ln = Render(c) \o "\n"
\* the pass of the loop stores the record of the canonical fields of the case
\* c; the name group is greedy and takes every space after the name but the
\* last one
StoresCanon(c) ==
    LET name == "A" \o SubSeq(c.sep, 1, Len(c.sep) - 1)
    IN  /\ pc' = "loop"
        /\ DOMAIN calibrator_db' = DOMAIN calibrator_db \cup {name}
        /\ calibrator_db'[name].epoch = 2000
        /\ calibrator_db'[name].a_mhz = 1 * Scale

IsDecimal(str) ==
    ReMatch(<<Opt(Signs), Plus(Digits), OptGrp(<<Lit("."), Plus(Digits)>>), End>>,
            str).ok
\* the a, b, c and d fields of a line the grammar matches
CoefficientFields(ln) ==
    LET g == ReMatch(LineRe, SplitComment(ln, 1)).caps
    IN  {g["a"], g["b"], g["c"], g["d"]}

\* C6: every failure caused by a line is the format error with the line
\* number and text; a line with a numeric field that is no signed integer or
\* decimal is rejected by the grammar, so a line the grammar matches becomes a
\* record.
C6_GrammarGuardsConversion ==
    [][/\ (InLoop /\ pc' = "raised") => err' = RuntimeError(ln_no, line)
       /\ (InLoop /\ ParseLine(line).kind \in {"record", "valueerror"}) =>
              /\ pc' = "loop"
              /\ ParseLine(line).name \in DOMAIN calibrator_db'
              /\ \A f \in CoefficientFields(line) : IsDecimal(f)
      ]_vars

\* C7: the GHz coefficients of every record are the Taylor shift of its MHz
\* coefficients by k = 3, the shift by -3 of the GHz coefficients gives the
\* MHz coefficients back, and a_ghz = a_mhz when b = c = d = 0.
C7_TaylorShift ==
    \A name \in DOMAIN calibrator_db :
        LET r == calibrator_db[name]
        IN  /\ r.a_ghz = r.a_mhz + 3 * r.b_mhz + 9 * r.c_mhz + 27 * r.d_mhz
            /\ r.b_ghz = r.b_mhz + 6 * r.c_mhz + 27 * r.d_mhz
            /\ r.c_ghz = r.c_mhz + 9 * r.d_mhz
            /\ r.d_ghz = r.d_mhz
            /\ GhzA(r.a_ghz, r.b_ghz, r.c_ghz, r.d_ghz, -3) = r.a_mhz
            /\ GhzB(r.a_ghz, r.b_ghz, r.c_ghz, r.d_ghz, -3) = r.b_mhz
            /\ GhzC(r.a_ghz, r.b_ghz, r.c_ghz, r.d_ghz, -3) = r.c_mhz
            /\ GhzD(r.a_ghz, r.b_ghz, r.c_ghz, r.d_ghz, -3) = r.d_mhz
            /\ (r.b_mhz = 0 /\ r.c_mhz = 0 /\ r.d_mhz = 0) => r.a_ghz = r.a_mhz

C7_Witness ==
    /\ pc = "returned"
    /\ \E n1, n2 \in DOMAIN calibrator_db :
          LET r1 == calibrator_db[n1]
              r2 == calibrator_db[n2]
          IN  /\ r1.b_mhz # 0 /\ r1.c_mhz # 0 /\ r1.d_mhz # 0
              /\ r1.a_ghz # r1.a_mhz
              /\ r1.b_ghz # r1.b_mhz
              /\ r1.c_ghz # r1.c_mhz
              /\ r2.b_mhz = 0 /\ r2.c_mhz = 0 /\ r2.d_mhz = 0
              /\ r2.a_mhz # 0

\* a standard error exceeds 1.0e-6
Exceeds(x) == ~x.nan /\ x.val > PerrTol

\* C8: the tuple (I, a', b', c', d') is returned only when no standard error
\* exceeds 1.0e-6; when one does the call fails with the assertion and
\* returns nothing; the fit is made once, never again.
C8_FitQuality ==
    /\ [](/\ cpc \in {"return", "returned"} =>
                \A i \in 1..4 : ~Val(perr)[i].nan /\ Val(perr)[i].val <= PerrTol
          /\ cpc = "returned" =>
                /\ cret = Some(<<Val(I)>> \o Val(popt))
                /\ cerr = NoError
          /\ cpc # "returned" => cret = None
          /\ (perr # None /\ \E i \in 1..4 : Exceeds(Val(perr)[i])) =>
                /\ cpc \in {"assert", "raised"}
                /\ cpc = "raised" => cerr = AssertionError)
    /\ [][perr # None => (perr' = perr /\ popt' = popt /\ cpc' \notin {"fit", "assert"})]_vars

C8_Witness ==
    /\ cpc = "returned"
    /\ cret = Some(<<10000, 1, 0, 0, 0>>)
    /\ \A i \in 1..4 : Val(perr)[i] = Num(PerrTol - 1)

\* the lines of a text: its tokens, split at the "\n" tokens
RECURSIVE SplitLines(_)
SplitLines(toks) ==
    IF \A i \in DOMAIN toks : toks[i] # NL THEN <<toks>>
    ELSE LET n == CHOOSE i \in DOMAIN toks :
                      toks[i] = NL /\ \A j \in 1..(i - 1) : toks[j] # NL
         IN  <<SubSeq(toks, 1, n - 1)>> \o SplitLines(SubSeq(toks, n + 1, Len(toks)))

\* C9: format_calibrator_db fails on no catalogue read_caltable returns; its
\* output is one empty line followed by one entry line per record, each record
\* once; for the empty catalogue it is the empty line alone.
C9_FormatLines ==
    /\ pc = "returned" => ENABLED FormatCalibratorDb
    /\ pc = "formatted" =>
          LET ls == SplitLines(Val(text))
              db == Val(ret)
          IN  /\ Len(ls) = 1 + Cardinality(DOMAIN db)
              /\ ls[1] = <<>>
              /\ \A name \in DOMAIN db :
                    Cardinality({i \in 2..Len(ls) : ls[i] = Entry(name, db[name])}) = 1
              /\ \A i \in 2..Len(ls) : ls[i][1] = Str("\t")
              /\ db = EmptyDb => Val(text) = <<>>

C9_Witness ==
    /\ pc = "formatted"
    /\ Cardinality(DOMAIN Val(ret)) = 2
    /\ Len(SplitLines(Val(text))) = 3

\* C10: every pass of the loop reads exactly one further line and adds one to
\* the line counter, the lines are examined in file order, the catalogue is
\* returned at the end of the file, and the call ends.
C10_Terminates ==
    /\ [][/\ (pc = "loop" /\ pc' = "loop") =>
                 /\ pos' = pos + 1
                 /\ ln_no' = ln_no + 1
                 /\ line' = FileLine(pos')
          /\ (pc = "open" /\ pc' = "loop") =>
                 pos' = 1 /\ ln_no' = 1 /\ line' = FileLine(1)
          /\ (pc = "loop" /\ pc' = "returned") =>
                 pos = Len(file) + 1 /\ ret' = Some(calibrator_db)
          /\ (pc = "loop" /\ pc' = "raised") =>
                 pos <= Len(file) /\ line = FileLine(pos)
         ]_vars
    /\ <>ReadDone

C10_Witness ==
    /\ pc = "returned"
    /\ pos = Len(file) + 1
    /\ ln_no = pos
    /\ Len(file) >= 3
    /\ \E i, j \in 1..Len(file) : Kind(i) = "skip" /\ Kind(j) = "record"
====
